---- MODULE Spec2Model ----
(***************************************************************************)
(* Model of devtools/convert_state.py: the one-shot conversion of the      *)
(* old .librarian/state.yaml and config.yaml into data/go/librarian.yaml.  *)
(*                                                                         *)
(* Python values are modelled as follows.                                  *)
(*   dict            a function whose DOMAIN is the set of keys present    *)
(*   list            a sequence                                            *)
(*   str (ids, ...)  a TLA+ string, compared as a whole                    *)
(*   str (image)     a sequence of one-character strings, because the      *)
(*                   image reference is split and searched                 *)
(*   None            the value None below                                  *)
(*   set of str      a duplicate-free sequence in an arbitrary order (the  *)
(*                   iteration order of a Python set of strings changes    *)
(*                   with the hash seed of the process)                    *)
(***************************************************************************)
EXTENDS Integers, Sequences, FiniteSets, TLC

VARIABLES fs, pc, state, config, release_blocked, image, tag, output,
          libraries, stdout, runs, fsAtStart, written

vars == <<fs, pc, state, config, release_blocked, image, tag, output,
          libraries, stdout, runs, fsAtStart, written>>

-----------------------------------------------------------------------------
(* Bounds of the model.                                                    *)

MaxLibs == 2

MaxCfgLibs == 2

MaxApis == 2

MaxPieces == 4

MaxRuns == 2

-----------------------------------------------------------------------------
(* Python primitives.                                                      *)

None == "None"

KeyError == [raised |-> "KeyError"]

Raised(v) == DOMAIN v = {"raised"}

EmptyDict == <<>>

\* "if d.get(k):" for a list value: a missing key and [] are falsy
TruthyList(d, k) == k \in DOMAIN d /\ d[k] # <<>>

\* "if d.get(k):" for a string value: a missing key, None and '' are falsy
TruthyStr(d, k) == k \in DOMAIN d /\ d[k] # None /\ d[k] # ""

\* "if d.get(k):" for a boolean value: a missing key and False are falsy
TruthyBool(d, k) == k \in DOMAIN d /\ d[k] = TRUE

\* d.get(k), None when the key is missing
Get(d, k) == IF k \in DOMAIN d THEN d[k] ELSE None

\* sub in s, for strings as character sequences
Contains(s, sub) ==
    \E i \in 0..(Len(s) - Len(sub)) : SubSeq(s, i + 1, i + Len(sub)) = sub

\* s.split(c) for a one-character separator c
RECURSIVE split(_, _)
split(s, c) ==
    IF \A i \in 1..Len(s) : s[i] # c
    THEN <<s>>
    ELSE LET i == CHOOSE k \in 1..Len(s) :
                      s[k] = c /\ \A j \in 1..(k - 1) : s[j] # c
         IN  <<SubSeq(s, 1, i - 1)>> \o split(SubSeq(s, i + 1, Len(s)), c)

\* s.rsplit(c, 1)
rsplit1(s, c) ==
    IF \A i \in 1..Len(s) : s[i] # c
    THEN <<s>>
    ELSE LET i == CHOOSE k \in 1..Len(s) :
                      s[k] = c /\ \A j \in (k + 1)..Len(s) : s[j] # c
         IN  <<SubSeq(s, 1, i - 1), SubSeq(s, i + 1, Len(s))>>

\* sep.join(parts)
RECURSIVE join(_, _)
join(sep, parts) ==
    IF parts = <<>> THEN <<>>
    ELSE IF Len(parts) = 1 THEN parts[1]
    ELSE parts[1] \o sep \o join(sep, Tail(parts))

\* parts[:-1]
AllButLast(parts) == SubSeq(parts, 1, Len(parts) - 1)

\* parts[-1]
Last(parts) == parts[Len(parts)]

Sha256Marker == <<"@", "s", "h", "a", "2", "5", "6">>

Latest == <<"l", "a", "t", "e", "s", "t">>

-----------------------------------------------------------------------------
(* Container image parsing, main lines 68-80.                              *)

digest_image(image_base) ==
    IF Contains(image_base, <<"/">>)
    THEN join(<<"/">>, AllButLast(split(image_base, "/")))
    ELSE image_base

\* mutant: the tag is taken from the part before '@'
digest_tag_from_base(image_full, image_base) ==
    IF Contains(image_base, <<":">>)
    THEN Last(split(image_base, ":"))
    ELSE Latest

digest_tag(image_full, image_base) ==
    IF Contains(image_base, <<":">>)
    THEN Last(split(image_full, ":"))
    ELSE Latest

parse_image(image_full) ==
    IF Contains(image_full, Sha256Marker)
    THEN LET image_base == split(image_full, "@")[1]
         IN  [image |-> digest_image(image_base),
              tag   |-> digest_tag(image_full, image_base)]
    ELSE LET parts == rsplit1(image_full, ":")
         IN  [image |-> IF Len(parts) > 1 THEN parts[1] ELSE image_full,
              tag   |-> IF Len(parts) > 1 THEN parts[2] ELSE Latest]

\* mutant: the image is emitted as parsed
container_image_unstripped(img) == img

\* 'image': image if '@' not in image else image.split('@')[0]
container_image(img) ==
    IF ~Contains(img, <<"@">>) THEN img ELSE split(img, "@")[1]

\* mutant: the parsed tag is emitted
container_tag_parsed(parsed_tag) == parsed_tag

\* 'tag': 'latest' -- the parsed tag is not used
container_tag(parsed_tag) == Latest

-----------------------------------------------------------------------------
(* convert_library, lines 10-48.                                           *)

\* mutant: "if 'service_config' in api"
api_entry_key_present(api) ==
    IF "service_config" \in DOMAIN api
    THEN [path |-> api.path, service_config |-> api.service_config]
    ELSE [path |-> api.path]

\* lines 26-30
api_entry(api) ==
    IF TruthyStr(api, "service_config")
    THEN [path |-> api.path, service_config |-> api.service_config]
    ELSE [path |-> api.path]

\* mutant: the entries are collected in reverse
convert_apis_reversed(apis) ==
    [i \in 1..Len(apis) |-> api_entry(apis[Len(apis) + 1 - i])]

\* the loop of lines 25-31
convert_apis(apis) == [i \in 1..Len(apis) |-> api_entry(apis[i])]

\* mutant: "if 'apis' in lib"
has_generate_key_present(lib) == "apis" \in DOMAIN lib

\* line 19
has_generate(lib) == TruthyList(lib, "apis")

\* lines 34-35
keep_part(lib) ==
    IF TruthyList(lib, "preserve_regex")
    THEN [keep |-> lib.preserve_regex] ELSE EmptyDict

\* lines 38-39
remove_part(lib) ==
    IF TruthyList(lib, "remove_regex")
    THEN [remove |-> lib.remove_regex] ELSE EmptyDict

\* lines 20-39
generate_section(lib) ==
    [apis |-> convert_apis(lib.apis)] @@ keep_part(lib) @@ remove_part(lib)

\* lib['id'] (line 14) and api['path'] (line 27) raise KeyError on a
\* missing key
convert_raises(lib) ==
    \/ "id" \notin DOMAIN lib
    \/ /\ has_generate(lib)
       /\ \E i \in 1..Len(lib.apis) : "path" \notin DOMAIN lib.apis[i]

convert_library(lib) ==
    IF convert_raises(lib) THEN KeyError
    ELSE [name |-> lib.id, version |-> Get(lib, "version")]
         @@ (IF has_generate(lib)
             THEN [generate |-> generate_section(lib)] ELSE EmptyDict)

-----------------------------------------------------------------------------
(* Release-blocked extraction, main lines 61-66.                           *)

\* mutant: every listed identifier is taken, whatever its flag
RECURSIVE blocked_ids_any_flag(_)
blocked_ids_any_flag(libs) ==
    IF libs = <<>> THEN {}
    ELSE (IF "id" \in DOMAIN Head(libs)
          THEN {Head(libs).id} ELSE {}) \cup blocked_ids_any_flag(Tail(libs))

RECURSIVE blocked_ids(_)
blocked_ids(libs) ==
    IF libs = <<>> THEN {}
    ELSE (IF TruthyBool(Head(libs), "release_blocked")
          THEN {Head(libs).id} ELSE {}) \cup blocked_ids(Tail(libs))

\* lib['id'] on line 66 raises KeyError for a blocked record without id
extract_raises(cfg) ==
    /\ TruthyList(cfg, "libraries")
    /\ \E i \in 1..Len(cfg.libraries) :
          /\ TruthyBool(cfg.libraries[i], "release_blocked")
          /\ "id" \notin DOMAIN cfg.libraries[i]

extract_release_blocked(cfg) ==
    IF TruthyList(cfg, "libraries") THEN blocked_ids(cfg.libraries) ELSE {}

\* the orders in which a Python set holding the identifiers S may iterate
SetOrders(S) ==
    { o \in [1..Cardinality(S) -> S] : \A x \in S : \E i \in DOMAIN o : o[i] = x }

\* mutant: only the element the set iterates first is compared
InSetFirst(x, set) == set # <<>> /\ set[1] = x

\* "x in release_blocked"
InSet(x, set) == \E i \in DOMAIN set : set[i] = x

CommentText == "release_blocked: true (handwritten code)"

\* lines 116-118
annotate(converted, lib, blocked) ==
    IF InSet(lib.id, blocked)
    THEN converted @@ [_comment |-> CommentText]
    ELSE converted

\* mutant: libraries.insert(0, converted)
prepend(list, x) == <<x>> \o list

\* libraries.append(converted), line 120
append(list, x) == Append(list, x)

-----------------------------------------------------------------------------
(* The output document, main lines 83-108 and 122.  A Python dict keeps    *)
(* its insertion order, which yaml.dump(sort_keys=False) writes out: the   *)
(* top-level dict is a pair of its key order and its mapping.              *)

SetItem(d, k, v) ==
    [keys |-> IF \E i \in DOMAIN d.keys : d.keys[i] = k
              THEN d.keys ELSE Append(d.keys, k),
     map  |-> [x \in {k} |-> v] @@ d.map]

GenerateDefaults ==
    [output_dir |-> "./",
     defaults   |-> [transport          |-> "grpc+rest",
                     rest_numeric_enums |-> TRUE,
                     release_level      |-> "stable"]]

ReleaseSection == [tag_format |-> "{id}/v{version}"]

\* lines 83-108
build_output(img, parsed_tag) ==
    LET base == [keys |-> <<"version", "language">>,
                 map  |-> [version |-> "v0.5.0", language |-> "go"]]
        withContainer ==
            IF img # <<>>
            THEN SetItem(base, "container",
                         [image |-> container_image(img),
                          tag   |-> container_tag(parsed_tag)])
            ELSE base
    IN  SetItem(SetItem(withContainer, "generate", GenerateDefaults),
                "release", ReleaseSection)

-----------------------------------------------------------------------------
(* Files.  fs maps the paths that exist to their content; the content of   *)
(* an input file is what yaml.safe_load makes of it.                       *)

StatePath == "state.yaml"

ConfigPath == "config.yaml"

OutputPath == "data/go/librarian.yaml"

Malformed == [kind |-> "malformed"]

\* an empty document: yaml.safe_load returns None
NullDoc == [kind |-> "null"]

MapDoc(d) == [kind |-> "map", doc |-> d]

Unset == [kind |-> "unset"]

\* a file left at the output path by something else
StaleOutput == [keys |-> <<"stale">>, map |-> [stale |-> TRUE]]

WriteFile(files, path, content) ==
    [p \in DOMAIN files \cup {path} |->
        IF p = path THEN content ELSE files[p]]

SeqsUpTo(S, n) == UNION { [1..k -> S] : k \in 0..n }

Opt(k, S) == {EmptyDict} \cup { [x \in {k} |-> v] : v \in S }

FileSystems(StateDocs, ConfigDocs) ==
    { s @@ c @@ o :
        s \in Opt(StatePath, {Malformed, NullDoc}
                                \cup { MapDoc(d) : d \in StateDocs }),
        c \in Opt(ConfigPath, {Malformed, NullDoc}
                                \cup { MapDoc(d) : d \in ConfigDocs }),
        o \in Opt(OutputPath, {StaleOutput}) }

-----------------------------------------------------------------------------
(* main, lines 50-137, one action per step.  A step that raises ends the   *)
(* run in "aborted".                                                       *)

InitWith(StateDocs, ConfigDocs) ==
    /\ fs \in FileSystems(StateDocs, ConfigDocs)
    /\ pc = "load_state"
    /\ state = Unset
    /\ config = Unset
    /\ release_blocked = <<>>
    /\ image = <<>>
    /\ tag = <<>>
    /\ output = [keys |-> <<>>, map |-> EmptyDict]
    /\ libraries = <<>>
    /\ stdout = <<>>
    /\ runs = 1
    /\ fsAtStart = fs
    /\ written = <<>>

\* lines 52-54: open() raises when the file is missing, safe_load when it
\* is malformed
LoadState ==
    /\ pc = "load_state"
    /\ IF StatePath \in DOMAIN fs /\ fs[StatePath] # Malformed
       THEN state' = fs[StatePath] /\ pc' = "load_config"
       ELSE state' = state /\ pc' = "aborted"
    /\ UNCHANGED <<fs, config, release_blocked, image, tag, output,
                   libraries, stdout, runs, fsAtStart, written>>

\* mutant: a config file that is missing or malformed counts as empty
LoadConfigOptional ==
    /\ pc = "load_config"
    /\ IF ConfigPath \in DOMAIN fs /\ fs[ConfigPath] # Malformed
       THEN config' = fs[ConfigPath]
       ELSE config' = MapDoc(EmptyDict)
    /\ pc' = "extract"
    /\ UNCHANGED <<fs, state, release_blocked, image, tag, output,
                   libraries, stdout, runs, fsAtStart, written>>

\* lines 57-59
LoadConfig ==
    /\ pc = "load_config"
    /\ IF ConfigPath \in DOMAIN fs /\ fs[ConfigPath] # Malformed
       THEN config' = fs[ConfigPath] /\ pc' = "extract"
       ELSE config' = config /\ pc' = "aborted"
    /\ UNCHANGED <<fs, state, release_blocked, image, tag, output,
                   libraries, stdout, runs, fsAtStart, written>>

\* lines 61-66: None has no get(); the set iterates in some order
ExtractReleaseBlocked ==
    /\ pc = "extract"
    /\ IF config = NullDoc \/ extract_raises(config.doc)
       THEN release_blocked' = release_blocked /\ pc' = "aborted"
       ELSE /\ release_blocked' \in
                   SetOrders(extract_release_blocked(config.doc))
            /\ pc' = "parse"
    /\ UNCHANGED <<fs, state, config, image, tag, output,
                   libraries, stdout, runs, fsAtStart, written>>

\* lines 68-80: image_full = state.get('image', '')
ParseImage ==
    /\ pc = "parse"
    /\ IF state = NullDoc
       THEN UNCHANGED <<image, tag>> /\ pc' = "aborted"
       ELSE LET image_full == IF "image" \in DOMAIN state.doc
                              THEN state.doc.image ELSE <<>>
                parsed == parse_image(image_full)
            IN  /\ image' = parsed.image
                /\ tag' = parsed.tag
                /\ pc' = "build"
    /\ UNCHANGED <<fs, state, config, release_blocked, output,
                   libraries, stdout, runs, fsAtStart, written>>

\* lines 83-108
BuildOutput ==
    /\ pc = "build"
    /\ output' = build_output(image, tag)
    /\ pc' = "convert"
    /\ UNCHANGED <<fs, state, config, release_blocked, image, tag,
                   libraries, stdout, runs, fsAtStart, written>>

\* state.get('libraries', [])
StateLibraries(doc) ==
    IF "libraries" \in DOMAIN doc THEN doc.libraries ELSE <<>>

\* lines 112-120, one iteration of the loop
ConvertNext ==
    /\ pc = "convert"
    /\ Len(libraries) < Len(StateLibraries(state.doc))
    /\ LET lib == StateLibraries(state.doc)[Len(libraries) + 1]
           converted == convert_library(lib)
       IN  IF Raised(converted)
           THEN libraries' = libraries /\ pc' = "aborted"
           ELSE /\ libraries' =
                       append(libraries,
                              annotate(converted, lib, release_blocked))
                /\ pc' = "convert"
    /\ UNCHANGED <<fs, state, config, release_blocked, image, tag, output,
                   stdout, runs, fsAtStart, written>>

\* line 122, the end of the loop
ConvertDone ==
    /\ pc = "convert"
    /\ Len(libraries) = Len(StateLibraries(state.doc))
    /\ output' = SetItem(output, "libraries", libraries)
    /\ pc' = "write"
    /\ UNCHANGED <<fs, state, config, release_blocked, image, tag,
                   libraries, stdout, runs, fsAtStart, written>>

\* lines 125-137: open(output_path, 'w') replaces the file; two lines are
\* printed
Write ==
    /\ pc = "write"
    /\ fs' = WriteFile(fs, OutputPath, output)
    /\ stdout' = <<Len(libraries), Len(release_blocked)>>
    /\ written' = Append(written, [out   |-> output,
                                   order |-> release_blocked])
    /\ pc' = "done"
    /\ UNCHANGED <<state, config, release_blocked, image, tag, output,
                   libraries, runs, fsAtStart>>

\* the script is run again on the same input files
RunAgain ==
    /\ pc \in {"done", "aborted"}
    /\ runs < MaxRuns
    /\ runs' = runs + 1
    /\ pc' = "load_state"
    /\ state' = Unset
    /\ config' = Unset
    /\ release_blocked' = <<>>
    /\ image' = <<>>
    /\ tag' = <<>>
    /\ output' = [keys |-> <<>>, map |-> EmptyDict]
    /\ libraries' = <<>>
    /\ stdout' = <<>>
    /\ fsAtStart' = fs
    /\ UNCHANGED <<fs, written>>

Next ==
    \/ LoadState
    \/ LoadConfig
    \/ ExtractReleaseBlocked
    \/ ParseImage
    \/ BuildOutput
    \/ ConvertNext
    \/ ConvertDone
    \/ Write
    \/ RunAgain

-----------------------------------------------------------------------------
(* Input documents.                                                        *)

\* records of the 'libraries' list of state.yaml
LibA == [id |-> "a", version |-> "1.2.0"]

LibB ==
    [id |-> "b", version |-> "0.3.0",
     apis |-> <<[path |-> "google/b/v1", service_config |-> "b_v1.yaml"]>>,
     source_roots |-> <<"b">>]

LibA2 == [id |-> "a", apis |-> <<[path |-> "google/a/v2"]>>]

LibNoId == [version |-> "0.1.0"]

SmallLibs == {LibA, LibB, LibA2, LibNoId}

\* records of the 'libraries' list of config.yaml
CfgLibs ==
    { [id |-> "a", release_blocked |-> TRUE],
      [id |-> "b", release_blocked |-> TRUE],
      [id |-> "a", release_blocked |-> FALSE],
      [id |-> "z", release_blocked |-> TRUE],
      [id |-> "b"],
      [release_blocked |-> TRUE] }

ExampleTag == <<"g", "c", "r", ".", "i", "o", "/", "f", "o", "o", "/", "b", "a", "r", ":", "v", "2">>

ExampleDigest == <<"g", "c", "r", ".", "i", "o", "/", "f", "o", "o", "/", "b", "a", "r", "@", "s", "h", "a", "2", "5", "6", ":", "a", "b", "c", "d", "1", "2", "3", "4">>

SmallRefs == {ExampleTag, ExampleDigest}

StateDocsMain ==
    { i @@ l : i \in Opt("image", SmallRefs),
               l \in Opt("libraries", SeqsUpTo(SmallLibs, MaxLibs)) }

ConfigDocsMain == Opt("libraries", SeqsUpTo(CfgLibs, MaxCfgLibs))

\* old-format library records in all shapes convert_library distinguishes
ApiRecords ==
    { [path |-> "google/x/v1"],
      [path |-> "google/y/v1", service_config |-> "y_v1.yaml"],
      [path |-> "google/x/v1", service_config |-> ""],
      [path |-> "google/y/v1", service_config |-> None],
      [service_config |-> "x_v1.yaml"] }

RegexLists == {<<>>, <<"^internal/", "^a/">>}

LibRecords ==
    { i @@ v @@ a @@ k @@ r :
        i \in Opt("id", {"a"}),
        v \in Opt("version", {"1.2.0"}),
        a \in Opt("apis", SeqsUpTo(ApiRecords, MaxApis)),
        k \in Opt("preserve_regex", RegexLists),
        r \in Opt("remove_regex", RegexLists) }

StateDocsLib == { [libraries |-> <<lib>>] : lib \in LibRecords }

ConfigDocsLib ==
    { [libraries |-> <<[id |-> "a", release_blocked |-> TRUE]>>], EmptyDict }

\* image references: all strings of at most MaxPieces of these pieces
Pieces == { <<"a">>, <<"/">>, <<":">>, <<"@">>, Sha256Marker }

RECURSIVE Flatten(_)
Flatten(ps) == IF ps = <<>> THEN <<>> ELSE Head(ps) \o Flatten(Tail(ps))

Refs == { Flatten(ps) : ps \in SeqsUpTo(Pieces, MaxPieces) } \cup SmallRefs

StateDocsImage ==
    { i @@ [libraries |-> <<LibB>>] : i \in Opt("image", Refs) }

ConfigDocsImage == { [libraries |-> <<[id |-> "b", release_blocked |-> TRUE]>>] }

-----------------------------------------------------------------------------
(* Specifications.                                                         *)

Init == InitWith(StateDocsMain, ConfigDocsMain)

Spec == Init /\ [][Next]_vars

InitLib == InitWith(StateDocsLib, ConfigDocsLib)

SpecLib == InitLib /\ [][Next]_vars

InitImage == InitWith(StateDocsImage, ConfigDocsImage)

SpecImage == InitImage /\ [][Next]_vars

-----------------------------------------------------------------------------
(* Views of the inputs and of the result used by the properties.           *)

StateLoads == StatePath \in DOMAIN fs /\ fs[StatePath].kind = "map"

ConfigLoads == ConfigPath \in DOMAIN fs /\ fs[ConfigPath].kind = "map"

\* the 'libraries' list of the state document on disk
SrcLibs == StateLibraries(fs[StatePath].doc)

\* the 'libraries' list of the config document on disk
RegistryLibs ==
    IF "libraries" \in DOMAIN fs[ConfigPath].doc
    THEN fs[ConfigPath].doc.libraries ELSE <<>>

\* the reference string of the state document on disk
ImageFull ==
    IF "image" \in DOMAIN fs[StatePath].doc
    THEN fs[StatePath].doc.image ELSE <<>>

\* the document written to the output path
OutDoc == fs[OutputPath].map

OutLibs == OutDoc.libraries

NonEmptyList(d, k) == k \in DOMAIN d /\ Len(d[k]) > 0

Has(s, c) == \E i \in 1..Len(s) : s[i] = c

FirstIdx(s, c) == CHOOSE i \in 1..Len(s) : s[i] = c /\ \A j \in 1..(i - 1) : s[j] # c

LastIdx(s, c) == CHOOSE i \in 1..Len(s) : s[i] = c /\ \A j \in (i + 1)..Len(s) : s[j] # c

BeforeFirst(s, c) == IF Has(s, c) THEN SubSeq(s, 1, FirstIdx(s, c) - 1) ELSE s

BeforeLast(s, c) == IF Has(s, c) THEN SubSeq(s, 1, LastIdx(s, c) - 1) ELSE s

AfterLast(s, c) == IF Has(s, c) THEN SubSeq(s, LastIdx(s, c) + 1, Len(s)) ELSE s

HasDigestMarker(s) ==
    \E i \in 1..Len(s) : i + 6 <= Len(s) /\
        <<s[i], s[i+1], s[i+2], s[i+3], s[i+4], s[i+5], s[i+6]>> = Sha256Marker

-----------------------------------------------------------------------------
(* Properties.                                                             *)

\* C1: after a successful run the names of the output 'libraries' list are
\* the ids of the state document's 'libraries' list, record for record and
\* in the same order; the registry of config.yaml adds no record.
C1_NamesAreStateIds ==
    pc = "done" =>
        /\ Len(OutLibs) = Len(SrcLibs)
        /\ \A i \in 1..Len(SrcLibs) : OutLibs[i].name = SrcLibs[i].id

C1_Witness ==
    /\ pc = "done"
    /\ Len(SrcLibs) = 2
    /\ SrcLibs[1].id = "b"
    /\ SrcLibs[2].id = "a"
    /\ \E j \in 1..Len(RegistryLibs) :
          "id" \in DOMAIN RegistryLibs[j] /\ RegistryLibs[j].id = "z"

\* the identifier of an output record is listed in the registry with a
\* truthy release_blocked flag
ListedBlocked(name) ==
    \E j \in 1..Len(RegistryLibs) :
        /\ "release_blocked" \in DOMAIN RegistryLibs[j]
        /\ RegistryLibs[j].release_blocked = TRUE
        /\ "id" \in DOMAIN RegistryLibs[j]
        /\ RegistryLibs[j].id = name

\* C2: an output record carries '_comment' with the fixed text exactly when
\* its identifier is listed in config.yaml with a truthy release_blocked
\* flag; every other output record has no '_comment'.
C2_CommentIffBlocked ==
    pc = "done" =>
        \A i \in 1..Len(OutLibs) :
            IF ListedBlocked(OutLibs[i].name)
            THEN /\ "_comment" \in DOMAIN OutLibs[i]
                 /\ OutLibs[i]._comment = "release_blocked: true (handwritten code)"
            ELSE "_comment" \notin DOMAIN OutLibs[i]

C2_Witness ==
    /\ pc = "done"
    /\ Len(OutLibs) = 2
    /\ "_comment" \in DOMAIN OutLibs[1]
    /\ "_comment" \notin DOMAIN OutLibs[2]
    /\ \E j \in 1..Len(RegistryLibs) :
          /\ "id" \in DOMAIN RegistryLibs[j]
          /\ RegistryLibs[j].id = OutLibs[2].name
          /\ ~TruthyBool(RegistryLibs[j], "release_blocked")

\* C3: a library record with a non-empty API list is converted to a record
\* with a 'generate' section whose 'apis' has the same length and carries
\* the input paths in the same order.
C3_ApiPathsKept ==
    \A i \in 1..Len(libraries) :
        NonEmptyList(SrcLibs[i], "apis") =>
            /\ "generate" \in DOMAIN libraries[i]
            /\ Len(libraries[i].generate.apis) = Len(SrcLibs[i].apis)
            /\ \A j \in 1..Len(SrcLibs[i].apis) :
                  libraries[i].generate.apis[j].path = SrcLibs[i].apis[j].path

C3_Witness ==
    /\ Len(libraries) = 1
    /\ NonEmptyList(SrcLibs[1], "apis")
    /\ Len(SrcLibs[1].apis) = 2
    /\ SrcLibs[1].apis[1].path = "google/y/v1"
    /\ SrcLibs[1].apis[2].path = "google/x/v1"

\* C4: a library record whose API list is empty or missing is converted to
\* a record without 'generate', holding only the name and the version,
\* whatever its preserve_regex and remove_regex.
C4_NoGenerateWithoutApis ==
    \A i \in 1..Len(libraries) :
        ~NonEmptyList(SrcLibs[i], "apis") =>
            DOMAIN libraries[i] \ {"_comment"} = {"name", "version"}

C4_Witness ==
    /\ Len(libraries) = 1
    /\ "apis" \in DOMAIN SrcLibs[1]
    /\ SrcLibs[1].apis = <<>>
    /\ NonEmptyList(SrcLibs[1], "preserve_regex")
    /\ NonEmptyList(SrcLibs[1], "remove_regex")

\* C5: whenever the written document has a container section its tag is
\* 'latest', in the digest branch and in the fallback branch alike.
C5_TagAlwaysLatest ==
    pc = "done" =>
        ("container" \in DOMAIN OutDoc => OutDoc.container.tag = Latest)

C5_Witness ==
    /\ pc = "done"
    /\ "container" \in DOMAIN OutDoc
    /\ HasDigestMarker(ImageFull)
    /\ tag # Latest
    /\ tag # <<>>

\* the emitted image as the claim C9 states it
ClaimedImage(ref) ==
    IF HasDigestMarker(ref)
    THEN LET base == BeforeFirst(ref, "@")
         IN  IF Has(base, "/") THEN BeforeLast(base, "/") ELSE base
    ELSE BeforeLast(ref, ":")

\* C9 as claimed: the emitted image is, in the digest branch, the text
\* before '@' without its final '/'-segment (whole when it has no '/'), and
\* otherwise the text before the last ':' (the whole reference when it has
\* no ':').
C9_ImageAsClaimed ==
    (pc = "done" /\ "container" \in DOMAIN OutDoc) =>
        OutDoc.container.image = ClaimedImage(ImageFull)

\* C9 as amended: as claimed, except that in the fallback branch the text
\* before the last ':' is cut at its first '@' when it contains one.
C9_ImageAmended ==
    (pc = "done" /\ "container" \in DOMAIN OutDoc) =>
        OutDoc.container.image =
            IF HasDigestMarker(ImageFull)
            THEN ClaimedImage(ImageFull)
            ELSE BeforeFirst(BeforeLast(ImageFull, ":"), "@")

C9_Witness ==
    /\ pc = "done"
    /\ "container" \in DOMAIN OutDoc
    /\ ~HasDigestMarker(ImageFull)
    /\ Has(ImageFull, ":")
    /\ Has(BeforeLast(ImageFull, ":"), "@")
    /\ OutDoc.container.image # <<>>
    /\ OutDoc.container.image # ClaimedImage(ImageFull)

\* the steps at which the parser has set image and tag in this run
Parsed == pc \in {"build", "convert", "write", "done"}

\* C10 as claimed: in the digest branch the parsed tag is the trailing
\* ':'-segment of the part of the reference before '@', and 'latest' when
\* that part has no ':'.
C10_TagAsClaimed ==
    (Parsed /\ HasDigestMarker(ImageFull)) =>
        tag = IF Has(BeforeFirst(ImageFull, "@"), ":")
              THEN AfterLast(BeforeFirst(ImageFull, "@"), ":")
              ELSE Latest

\* C10 as amended: in the digest branch the parsed tag is the trailing
\* ':'-segment of the whole reference when the part before '@' has a ':',
\* and 'latest' when that part has no ':'.
C10_TagAmended ==
    (Parsed /\ HasDigestMarker(ImageFull)) =>
        tag = IF Has(BeforeFirst(ImageFull, "@"), ":")
              THEN AfterLast(ImageFull, ":")
              ELSE Latest

C10_Witness ==
    /\ Parsed
    /\ HasDigestMarker(ImageFull)
    /\ Has(BeforeFirst(ImageFull, "@"), ":")
    /\ tag # AfterLast(BeforeFirst(ImageFull, "@"), ":")
    /\ tag # Latest

\* an input file is missing or malformed, or a record of the state
\* document has no id
FaultyInput ==
    \/ StatePath \notin DOMAIN fs
    \/ fs[StatePath] = Malformed
    \/ ConfigPath \notin DOMAIN fs
    \/ fs[ConfigPath] = Malformed
    \/ /\ StateLoads
       /\ \E i \in 1..Len(SrcLibs) : "id" \notin DOMAIN SrcLibs[i]

\* C6: with a faulty input the run never reaches the writer and the files
\* stay as they were; an aborted run leaves the files as they were; the
\* writer is reached only with every record of the state document
\* converted, and the files change in no other step.
C6_AllOrNothing ==
    /\ FaultyInput => (pc \notin {"write", "done"} /\ fs = fsAtStart
                          /\ written = <<>>)
    /\ pc = "aborted" => fs = fsAtStart
    /\ pc = "write" => (Len(libraries) = Len(SrcLibs) /\ fs = fsAtStart)
    /\ fs # fsAtStart => pc = "done"

C6_Witness ==
    /\ pc = "aborted"
    /\ StateLoads
    /\ ConfigLoads
    /\ Len(libraries) = 1
    /\ Len(SrcLibs) = 2
    /\ "id" \notin DOMAIN SrcLibs[2]
    /\ OutputPath \in DOMAIN fs
    /\ fs[OutputPath] = StaleOutput

\* C7: every successful run on the same two input documents writes the
\* same document, with the same key order, whatever order the
\* release-blocked set iterates in.
C7_Deterministic ==
    \A i, j \in 1..Len(written) : written[i].out = written[j].out

C7_Witness ==
    /\ Len(written) = 2
    /\ written[1].order # written[2].order
    /\ Len(OutLibs) = 2
    /\ "_comment" \in DOMAIN OutLibs[1]
    /\ OutLibs[1].name # OutLibs[2].name

\* C8: in the generate section of a record with a non-empty API list, an
\* API entry has 'service_config' exactly when the source API has a
\* non-empty one, 'keep' is there exactly when preserve_regex is non-empty,
\* 'remove' exactly when remove_regex is non-empty, and what is there
\* equals the source value.
C8_OptionalFields ==
    \A i \in 1..Len(libraries) :
        NonEmptyList(SrcLibs[i], "apis") =>
            LET src == SrcLibs[i]
                gen == libraries[i].generate
            IN  /\ \A j \in 1..Len(src.apis) :
                      IF /\ "service_config" \in DOMAIN src.apis[j]
                         /\ src.apis[j].service_config \notin {"", None}
                      THEN /\ "service_config" \in DOMAIN gen.apis[j]
                           /\ gen.apis[j].service_config =
                                  src.apis[j].service_config
                      ELSE "service_config" \notin DOMAIN gen.apis[j]
                /\ IF NonEmptyList(src, "preserve_regex")
                   THEN "keep" \in DOMAIN gen /\ gen.keep = src.preserve_regex
                   ELSE "keep" \notin DOMAIN gen
                /\ IF NonEmptyList(src, "remove_regex")
                   THEN "remove" \in DOMAIN gen /\ gen.remove = src.remove_regex
                   ELSE "remove" \notin DOMAIN gen

C8_Witness ==
    /\ Len(libraries) = 1
    /\ NonEmptyList(SrcLibs[1], "apis")
    /\ Len(SrcLibs[1].apis) = 2
    /\ "service_config" \in DOMAIN SrcLibs[1].apis[1]
    /\ SrcLibs[1].apis[1].service_config = ""
    /\ "service_config" \in DOMAIN libraries[1].generate.apis[2]
    /\ "preserve_regex" \in DOMAIN SrcLibs[1]
    /\ SrcLibs[1].preserve_regex = <<>>
    /\ "remove" \in DOMAIN libraries[1].generate

====
